---- MODULE Spec2Model ----
(***************************************************************************)
(* Webhook ingestion service: signature gate, payload validation,          *)
(* idempotent SQLite store, metrics collector and request middleware.      *)
(*                                                                         *)
(* Strings that the code inspects character by character (from, to, ts,    *)
(* message_id) are sequences of one-character strings.  A text value       *)
(* carries its visible characters and the number of filler characters      *)
(* that follow them, so that the 4096 limit is checked on a real length.   *)
(***************************************************************************)
EXTENDS Integers, Sequences, FiniteSets, TLC

\* ------------------------------------------------------------- bounds
MaxReq == 2
MaxClock == 1

Reqs == 1..MaxReq

\* ------------------------------------------------------ JSON values
VMissing == [t |-> "missing", s |-> <<>>, pad |-> 0]
VNull == [t |-> "null", s |-> <<>>, pad |-> 0]
VInt == [t |-> "int", s |-> <<>>, pad |-> 0]
VStr(chars) == [t |-> "str", s |-> chars, pad |-> 0]
VPadded(chars, n) == [t |-> "str", s |-> chars, pad |-> n]
StrLen(v) == Len(v.s) + v.pad

\* ------------------------------------------- models.py: field formats
DigitSeq == <<"0", "1", "2", "3", "4", "5", "6", "7", "8", "9">>
IsDigit(c) == \E i \in 1..10 : DigitSeq[i] = c
DigitVal(c) == (CHOOSE i \in 1..10 : DigitSeq[i] = c) - 1

\* Python's "$" matches at the end of the string and also just before a
\* newline that is the last character: the part a pattern ending in "$"
\* has to match is the string without that one trailing newline.
DollarCore(s) ==
    IF Len(s) > 0 /\ s[Len(s)] = "\n" THEN SubSeq(s, 1, Len(s) - 1) ELSE s

E164Full(s) ==
    /\ Len(s) >= 2
    /\ s[1] = "+"
    /\ \A i \in 2..Len(s) : IsDigit(s[i])

E164_PATTERN(s) == E164Full(s) \/ E164Full(DollarCore(s))

IsoShape(s) ==
    /\ Len(s) = 20
    /\ \A i \in {1, 2, 3, 4, 6, 7, 9, 10, 12, 13, 15, 16, 18, 19} : IsDigit(s[i])
    /\ s[5] = "-" /\ s[8] = "-" /\ s[11] = "T"
    /\ s[14] = ":" /\ s[17] = ":" /\ s[20] = "Z"

ISO8601_UTC_PATTERN(s) == IsoShape(s) \/ IsoShape(DollarCore(s))

Num2(s, i) == 10 * DigitVal(s[i]) + DigitVal(s[i + 1])
Num4(s, i) == 100 * Num2(s, i) + Num2(s, i + 2)
IsLeap(y) == (y % 4 = 0 /\ y % 100 # 0) \/ y % 400 = 0
DaysInMonth(y, m) ==
    IF m = 2 THEN (IF IsLeap(y) THEN 29 ELSE 28)
    ELSE IF m \in {4, 6, 9, 11} THEN 30 ELSE 31

\* datetime.fromisoformat(v.replace("Z", "+00:00")) on a string that passed
\* the pattern: the whole string must be the timestamp (a trailing newline
\* is rejected) and the fields must denote a calendar instant.
FromIsoFormatOk(s) ==
    /\ IsoShape(s)
    /\ Num4(s, 1) >= 1
    /\ Num2(s, 6) \in 1..12
    /\ Num2(s, 9) >= 1
    /\ Num2(s, 9) <= DaysInMonth(Num4(s, 1), Num2(s, 6))
    /\ Num2(s, 12) <= 23
    /\ Num2(s, 15) <= 59
    /\ Num2(s, 18) <= 59

MaxTextLen == 4096

Err(loc, msg, type) == [loc |-> loc, msg |-> msg, type |-> type]

ErrMessageId(v) ==
    IF v.t = "missing" THEN <<Err("message_id", "Field required", "missing")>>
    ELSE IF v.t # "str"
    THEN <<Err("message_id", "Input should be a valid string", "string_type")>>
    ELSE IF StrLen(v) < 1
    THEN <<Err("message_id", "String should have at least 1 character",
               "string_too_short")>>
    ELSE <<>>

validate_e164(name, v) ==
    IF v.t = "missing" THEN <<Err(name, "Field required", "missing")>>
    ELSE IF v.t # "str"
    THEN <<Err(name, "Input should be a valid string", "string_type")>>
    ELSE IF ~E164_PATTERN(v.s)
    THEN <<Err(name, "Value error, must be in E.164 format", "value_error")>>
    ELSE <<>>

validate_iso8601_utc(v) ==
    IF v.t = "missing" THEN <<Err("ts", "Field required", "missing")>>
    ELSE IF v.t # "str"
    THEN <<Err("ts", "Input should be a valid string", "string_type")>>
    ELSE IF ~ISO8601_UTC_PATTERN(v.s)
    THEN <<Err("ts", "Value error, ts must be ISO-8601 UTC format with Z suffix",
               "value_error")>>
    ELSE IF ~FromIsoFormatOk(v.s)
    THEN <<Err("ts", "Value error, ts must be a valid datetime", "value_error")>>
    ELSE <<>>

\* Variant: max_length is taken as an exclusive limit.
ErrText_LimitExclusive(v) ==
    IF v.t \in {"missing", "null"} THEN <<>>
    ELSE IF v.t # "str"
    THEN <<Err("text", "Input should be a valid string", "string_type")>>
    ELSE IF StrLen(v) >= MaxTextLen
    THEN <<Err("text", "String should have at most 4096 characters",
               "string_too_long")>>
    ELSE <<>>

\* text: Optional[str] = Field(None, max_length=4096)
ErrText(v) ==
    IF v.t \in {"missing", "null"} THEN <<>>
    ELSE IF v.t # "str"
    THEN <<Err("text", "Input should be a valid string", "string_type")>>
    ELSE IF StrLen(v) > MaxTextLen
    THEN <<Err("text", "String should have at most 4096 characters",
               "string_too_long")>>
    ELSE <<>>

\* WebhookMessage(**payload): the errors of all fields, in field order.
WebhookMessageErrors(f) ==
    ErrMessageId(f.message_id) \o validate_e164("from", f.from)
        \o validate_e164("to", f.to) \o validate_iso8601_utc(f.ts)
        \o ErrText(f.text)

\* ------------------------------------------------- request inputs
Id_m1 == <<"m", "1">>
Id_m2 == <<"m", "2">>
Id_m3 == <<"m", "3">>
P15 == <<"+", "1", "5">>
P16 == <<"+", "1", "6">>
P17 == <<"+", "1", "7">>
Ts(mo, d, h) ==
    <<"2", "0", "2", "4", "-">> \o mo \o <<"-">> \o d \o <<"T">> \o h
        \o <<":", "0", "0", ":", "0", "0", "Z">>
T1 == Ts(<<"0", "1">>, <<"1", "5">>, <<"1", "0">>)
T2 == Ts(<<"0", "2">>, <<"2", "9">>, <<"0", "9">>)

Fields(id, from, to, ts, text) ==
    [message_id |-> id, from |-> from, to |-> to, ts |-> ts, text |-> text]
Obj(f) == [kind |-> "object", f |-> f]
NonObj(kind) ==
    [kind |-> kind, f |-> Fields(VMissing, VMissing, VMissing, VMissing, VMissing)]
Good(id, from, text) == Fields(VStr(id), VStr(from), VStr(P16), VStr(T1), text)

\* The raw bodies a client may send, by name.  "kind" is what json.loads
\* makes of the bytes: not decodable as text, not JSON, a JSON value that
\* is not an object, or an object with the given members.
Body(b) ==
    CASE b = "m1a" -> Obj(Good(Id_m1, P15, VStr(<<"h", "i">>)))
      [] b = "m1b" -> Obj(Fields(VStr(Id_m1), VStr(P17), VStr(P15), VStr(T2), VMissing))
      [] b = "m2max" -> Obj(Good(Id_m2, P17, VPadded(<<"x">>, MaxTextLen - 1)))
      [] b = "noid" -> Obj([Good(Id_m1, P15, VNull) EXCEPT !.message_id = VMissing])
      [] b = "emptyid" -> Obj(Good(<<>>, P15, VNull))
      [] b = "from_noplus" -> Obj(Good(Id_m1, <<"1", "5">>, VNull))
      [] b = "from_newline" -> Obj(Good(Id_m3, <<"+", "1", "5", "\n">>, VNull))
      [] b = "ts_noZ" ->
            Obj([Good(Id_m1, P15, VNull) EXCEPT !.ts = VStr(SubSeq(T1, 1, 19))])
      [] b = "ts_month13" ->
            Obj([Good(Id_m1, P15, VNull) EXCEPT
                    !.ts = VStr(Ts(<<"1", "3">>, <<"1", "5">>, <<"1", "0">>))])
      [] b = "ts_feb30" ->
            Obj([Good(Id_m1, P15, VNull) EXCEPT
                    !.ts = VStr(Ts(<<"0", "2">>, <<"3", "0">>, <<"1", "0">>))])
      [] b = "ts_newline" ->
            Obj([Good(Id_m1, P15, VNull) EXCEPT !.ts = VStr(T1 \o <<"\n">>)])
      [] b = "to_letter" ->
            Obj([Good(Id_m1, P15, VNull) EXCEPT !.to = VStr(<<"+", "1", "a">>)])
      [] b = "text_4097" -> Obj(Good(Id_m1, P15, VPadded(<<"x">>, MaxTextLen)))
      [] b = "many_errors" ->
            Obj(Fields(VStr(<<>>), VMissing, VStr(<<"+">>), VInt, VInt))
      [] b = "null" -> NonObj("null")
      [] b = "undecodable" -> NonObj("undecodable")
      [] b = "notjson" -> NonObj("notjson")
      [] b = "array" -> NonObj("array")

ObjectBodies ==
    {"m1a", "m1b", "m2max", "noid", "emptyid", "from_noplus", "from_newline",
     "ts_noZ", "ts_month13", "ts_feb30", "ts_newline", "to_letter", "text_4097",
     "many_errors"}
NonObjectBodies == {"undecodable", "notjson", "array", "null"}
Bodies == ObjectBodies \cup NonObjectBodies

\* settings.webhook_secret: unset (None), set to the empty string, or set.
NoSecret == "<None>"
Secrets == {NoSecret, "", "s"}

\* The X-Signature header: absent, the empty string, the hex HMAC-SHA256 of
\* body b under key k, some other ASCII string, or a string with a
\* non-ASCII character (headers are decoded as latin-1).
SigAbsent == [t |-> "absent", k |-> "", b |-> ""]
SigEmpty == [t |-> "empty", k |-> "", b |-> ""]
SigJunk == [t |-> "junk", k |-> "", b |-> ""]
SigNonAscii == [t |-> "nonascii", k |-> "", b |-> ""]
Hmac(k, b) == [t |-> "hex", k |-> k, b |-> b]

Inputs ==
    {[body |-> b, sig |-> Hmac("s", b)] : b \in Bodies}
        \cup [body : {"m1a"},
              sig : {SigAbsent, SigEmpty, SigJunk, SigNonAscii,
                     Hmac("", "m1a"), Hmac("k2", "m1a"), Hmac("s", "m2max")}]
        \cup [body : {"from_noplus"}, sig : {SigAbsent, SigNonAscii}]

\* The inputs of the runs in which requests overlap: the accepted bodies
\* (two of them with the same message_id) and one request for each way of
\* stopping at a gate.
CoreInputs ==
    {[body |-> b, sig |-> Hmac("s", b)] :
        b \in {"m1a", "m1b", "m2max", "from_noplus", "array"}}
        \cup {[body |-> "m1a", sig |-> SigAbsent], [body |-> "m1a", sig |-> Hmac("", "m1a")]}

\* ------------------------------------------------ main.py: the gates
RespOk == [kind |-> "status", text |-> "ok", errors |-> <<>>]
RespDetail(text) == [kind |-> "detail", text |-> text, errors |-> <<>>]
RespErrors(errs) == [kind |-> "detail_list", text |-> "", errors |-> errs]

\* hmac.compare_digest(expected, signature) on two str values raises
\* TypeError when one of them holds a non-ASCII character; else it is equality.
verify_signature(b, sig, sec) ==
    IF sig.t = "nonascii" THEN "TypeError"
    ELSE IF sig = Hmac(sec, b) THEN "true"
    ELSE "false"

Outcome(kind, result, status, resp, checked, exc) ==
    [kind |-> kind, result |-> result, status |-> status, resp |-> resp,
     sigChecked |-> checked, exc |-> exc]

\* Variant: the response carries str(e).
UnexpectedError_EchoesCause(checked, exc) ==
    Outcome("raise", "server_error", 500, RespDetail(exc), checked, exc)

\* The "except Exception" block: whatever was raised inside the try.
UnexpectedError(checked, exc) ==
    Outcome("raise", "server_error", 500, RespDetail("internal server error"),
            checked, exc)

\* json.loads(body) and WebhookMessage(**payload): only JSONDecodeError and
\* ValidationError are caught by the inner except.
ParseAndValidate(b) ==
    LET body == Body(b)
        errs == WebhookMessageErrors(body.f)
    IN  IF body.kind = "undecodable" THEN UnexpectedError(TRUE, "UnicodeDecodeError")
        ELSE IF body.kind = "notjson"
        THEN Outcome("reject", "validation_error", 422, RespDetail("Invalid JSON"),
                     TRUE, "none")
        ELSE IF body.kind # "object" THEN UnexpectedError(TRUE, "TypeError")
        ELSE IF errs # <<>>
        THEN Outcome("reject", "validation_error", 422, RespErrors(errs), TRUE, "none")
        ELSE Outcome("pass", "", 200, RespOk, TRUE, "none")

\* Variant: only an unset secret counts as missing ("is None").
SecretMissing_OnlyNone(sec) == sec = NoSecret

SecretMissing(sec) == sec \in {NoSecret, ""}

\* The webhook handler up to the call of storage.insert_message.
Gate(sec, sig, b) ==
    IF SecretMissing(sec)
    THEN Outcome("reject", "server_error", 503, RespDetail("server not ready"),
                 FALSE, "none")
    ELSE IF sig.t \in {"absent", "empty"}
    THEN Outcome("reject", "invalid_signature", 401, RespDetail("invalid signature"),
                 TRUE, "none")
    ELSE IF verify_signature(b, sig, sec) = "TypeError"
    THEN UnexpectedError(TRUE, "TypeError")
    ELSE IF verify_signature(b, sig, sec) = "false"
    THEN Outcome("reject", "invalid_signature", 401, RespDetail("invalid signature"),
                 TRUE, "none")
    ELSE ParseAndValidate(b)

\* Gate and Body for every configuration and input, evaluated once.
GateOf == [sec \in Secrets, inp \in Inputs |-> Gate(sec, inp.sig, inp.body)]
BodyOf == [b \in Bodies |-> Body(b)]

\* The validated message handed to the store (text absent or null is None).
Message(b) ==
    LET f == BodyOf[b].f
    IN  [message_id |-> f.message_id.s, from_ |-> f.from.s, to |-> f.to.s,
         ts |-> f.ts.s, text |-> IF f.text.t = "str" THEN f.text ELSE VNull]

\* Variant: the two labels are swapped.
ResultLabel_Swapped(is_dup) == IF is_dup THEN "created" ELSE "duplicate"

ResultLabel(is_dup) == IF is_dup THEN "duplicate" ELSE "created"

\* ---------------------------------------------------- storage.py
Row(m, created_at) ==
    [message_id |-> m.message_id, from_msisdn |-> m.from_, to_msisdn |-> m.to,
     ts |-> m.ts, text |-> m.text, created_at |-> created_at]

HasId(rs, id) == \E i \in 1..Len(rs) : rs[i].message_id = id
CountId(rs, id) == Cardinality({i \in 1..Len(rs) : rs[i].message_id = id})

\* Variant: the table has no PRIMARY KEY, every INSERT adds a row.
InsertStmt_NoPrimaryKey(rs, row) == [err |-> "none", rows |-> Append(rs, row)]

\* INSERT INTO messages ...: message_id is the PRIMARY KEY.
InsertStmt(rs, row) ==
    IF HasId(rs, row.message_id)
    THEN [err |-> "IntegrityError", rows |-> rs]
    ELSE [err |-> "none", rows |-> Append(rs, row)]

\* Variant: sqlite3.IntegrityError is not caught and reaches the caller.
InsertReturn_DuplicateRaises(err) ==
    IF err = "none" THEN [raised |-> FALSE, success |-> TRUE, is_dup |-> FALSE]
    ELSE [raised |-> TRUE, success |-> FALSE, is_dup |-> FALSE]

\* Variant: every other error is caught too and reported as (False, False).
InsertReturn_SwallowsFaults(err) ==
    IF err = "none" THEN [raised |-> FALSE, success |-> TRUE, is_dup |-> FALSE]
    ELSE IF err = "IntegrityError"
    THEN [raised |-> FALSE, success |-> TRUE, is_dup |-> TRUE]
    ELSE [raised |-> FALSE, success |-> FALSE, is_dup |-> FALSE]

\* insert_message: what it does with the outcome of the statement.
InsertReturn(err) ==
    IF err = "none" THEN [raised |-> FALSE, success |-> TRUE, is_dup |-> FALSE]
    ELSE IF err = "IntegrityError"
    THEN [raised |-> FALSE, success |-> TRUE, is_dup |-> TRUE]
    ELSE [raised |-> TRUE, success |-> FALSE, is_dup |-> FALSE]

\* Variant: writers are not serialised.
WriteLockFree_Never(holder, r) == TRUE

\* SQLite lets one connection at a time hold the write lock.
WriteLockFree(holder, r) == holder \in {0, r}

\* ------------------------------------------- storage.py: reading
\* The characters of the model in byte order: SQLite compares TEXT with
\* memcmp (BINARY collation), a proper prefix sorting first.
Ascii ==
    <<"\n", "!", "%", "+", "-", "0", "1", "2", "3", "4", "5", "6", "7", "8", "9",
      ":", "B", "H", "T", "Z", "_", "a", "b", "h", "i", "m", "s", "t", "x", "z">>
CharCode(c) == CHOOSE i \in 1..Len(Ascii) : Ascii[i] = c
TextLess(a, b) ==
    \E k \in 1..Len(b) :
        /\ k <= Len(a) + 1
        /\ \A j \in 1..(k - 1) : a[j] = b[j]
        /\ (k = Len(a) + 1 \/ CharCode(a[k]) < CharCode(b[k]))

\* LIKE: "%" matches any run of characters, "_" any one character, and a
\* letter matches itself in either case (ASCII only).
UpperCase == <<"B", "H", "T", "Z">>
LowerCase == <<"b", "h", "t", "z">>
Fold(c) ==
    IF \E i \in 1..Len(UpperCase) : UpperCase[i] = c
    THEN LowerCase[CHOOSE i \in 1..Len(UpperCase) : UpperCase[i] = c]
    ELSE c
RECURSIVE Like(_, _)
Like(p, t) ==
    IF p = <<>> THEN t = <<>>
    ELSE IF Head(p) = "%"
    THEN Like(Tail(p), t) \/ (t # <<>> /\ Like(p, Tail(t)))
    ELSE IF t = <<>> THEN FALSE
    ELSE /\ (Head(p) = "_" \/ Fold(Head(p)) = Fold(Head(t)))
         /\ Like(Tail(p), Tail(t))
TextChars(v) == v.s \o [i \in 1..v.pad |-> "x"]

\* "if from_filter:", "if since:", "if q:": None and "" add no condition.
Truthy(v) == v.t = "str" /\ Len(v.s) > 0

\* Variant: the conditions are joined with OR.
Matches_AnyCondition(row, f) ==
    \/ ~(Truthy(f.from) \/ Truthy(f.since) \/ Truthy(f.q))
    \/ (Truthy(f.from) /\ row.from_msisdn = f.from.s)
    \/ (Truthy(f.since) /\ ~TextLess(row.ts, f.since.s))
    \/ (/\ Truthy(f.q) /\ row.text.t = "str"
        /\ Like(<<"%">> \o f.q.s \o <<"%">>, TextChars(row.text)))

\* The WHERE clause built from the supplied filters; a NULL text fails LIKE.
Matches(row, f) ==
    /\ Truthy(f.from) => row.from_msisdn = f.from.s
    /\ Truthy(f.since) => ~TextLess(row.ts, f.since.s)
    /\ Truthy(f.q) =>
          /\ row.text.t = "str"
          /\ Like(<<"%">> \o f.q.s \o <<"%">>, TextChars(row.text))
Matching(rs, f) == {i \in 1..Len(rs) : Matches(rs[i], f)}

\* Variant: the count is taken over the whole table.
CountStmt_NoWhere(rs, f) == Len(rs)

\* SELECT COUNT(*) FROM messages {where_clause}
CountStmt(rs, f) == Cardinality(Matching(rs, f))

\* Variant: ORDER BY ts ASC only; rows with one ts come in rowid order.
RowBefore_NoTieBreak(rs, i, j) ==
    \/ TextLess(rs[i].ts, rs[j].ts)
    \/ (rs[i].ts = rs[j].ts /\ i < j)

\* ORDER BY ts ASC, message_id ASC
RowBefore(rs, i, j) ==
    \/ TextLess(rs[i].ts, rs[j].ts)
    \/ (rs[i].ts = rs[j].ts /\ TextLess(rs[i].message_id, rs[j].message_id))

\* Query parameters are unbounded Python ints; SQLite binds 64-bit ones.
\* [big |-> TRUE] stands for 2^63 + n, past the largest SQLite INTEGER.
IntParam(n) == [t |-> "int", big |-> FALSE, n |-> n]
BeyondInt64 == [t |-> "int", big |-> TRUE, n |-> 0]
NoParam == [t |-> "absent", big |-> FALSE, n |-> 0]
ParamGe(v, k) == v.big \/ v.n >= k
ParamLe(v, k) == ~v.big /\ v.n <= k

MessageOut(row) ==
    [message_id |-> row.message_id, from_ |-> row.from_msisdn,
     to |-> row.to_msisdn, ts |-> row.ts, text |-> row.text]

\* Variant: the two parameters are bound the other way round.
SelectStmt_ParamsSwapped(rs, f, limit, offset) ==
    LET M == Matching(rs, f)
        rank(i) == Cardinality({j \in M : RowBefore(rs, j, i)})
        last == IF Cardinality(M) < limit + offset THEN Cardinality(M)
                ELSE limit + offset
    IN  [k \in 1..(IF last > limit THEN last - limit ELSE 0) |->
            MessageOut(rs[CHOOSE i \in M : rank(i) = limit + k - 1])]

\* SELECT ... {where_clause} ORDER BY ... LIMIT ? OFFSET ?, for parameters
\* SQLite can bind.
SelectStmt(rs, f, limit, offset) ==
    LET M == Matching(rs, f)
        rank(i) == Cardinality({j \in M : RowBefore(rs, j, i)})
        last == IF Cardinality(M) < offset + limit THEN Cardinality(M)
                ELSE offset + limit
    IN  [k \in 1..(IF last > offset THEN last - offset ELSE 0) |->
            MessageOut(rs[CHOOSE i \in M : rank(i) = offset + k - 1])]

\* get_stats: the four statements.
SenderSet(rs) == {rs[i].from_msisdn : i \in 1..Len(rs)}
SenderRows(rs, sender) ==
    Cardinality({i \in 1..Len(rs) : rs[i].from_msisdn = sender})
TopN == 10

\* Variant: ORDER BY count ASC.
GroupBefore_Ascending(rs, tie, a, b) ==
    \/ SenderRows(rs, a) < SenderRows(rs, b)
    \/ (/\ SenderRows(rs, a) = SenderRows(rs, b)
        /\ IF tie = "asc" THEN TextLess(a, b) ELSE TextLess(b, a))

\* ORDER BY count DESC.  SQL leaves the order of groups with equal counts
\* open: tie is the direction the engine happens to produce.
GroupBefore(rs, tie, a, b) ==
    \/ SenderRows(rs, a) > SenderRows(rs, b)
    \/ (/\ SenderRows(rs, a) = SenderRows(rs, b)
        /\ IF tie = "asc" THEN TextLess(a, b) ELSE TextLess(b, a))

\* Variant: the statement has no LIMIT.
TopCount_NoLimit(groups) == groups

\* LIMIT 10
TopCount(groups) == IF groups < TopN THEN groups ELSE TopN

TopSendersStmt(rs, tie) ==
    LET G == SenderSet(rs)
        rank(a) == Cardinality({b \in G : GroupBefore(rs, tie, b, a)})
    IN  [k \in 1..TopCount(Cardinality(G)) |->
            LET a == CHOOSE a \in G : rank(a) = k - 1
            IN  [from_ |-> a, count |-> SenderRows(rs, a)]]

\* Variant: MIN and MAX are exchanged.
MinMaxStmt_Swapped(rs) ==
    IF rs = <<>> THEN [first |-> VNull, last |-> VNull]
    ELSE LET T == {rs[i].ts : i \in 1..Len(rs)}
         IN  [first |-> VStr(CHOOSE t \in T : \A u \in T : ~TextLess(t, u)),
              last |-> VStr(CHOOSE t \in T : \A u \in T : ~TextLess(u, t))]

\* SELECT MIN(ts), MAX(ts) FROM messages: NULL, NULL on an empty table.
MinMaxStmt(rs) ==
    IF rs = <<>> THEN [first |-> VNull, last |-> VNull]
    ELSE LET T == {rs[i].ts : i \in 1..Len(rs)}
         IN  [first |-> VStr(CHOOSE t \in T : \A u \in T : ~TextLess(u, t)),
              last |-> VStr(CHOOSE t \in T : \A u \in T : ~TextLess(t, u))]

\* ----------------------------------------------------- metrics.py
LATENCY_BUCKETS == <<10, 25, 50, 100, 250, 500, 1000, 2500, 5000, 10000>>
Labels ==
    {"created", "duplicate", "invalid_signature", "validation_error", "server_error"}
Paths == {"/webhook"}
Statuses == {200, 401, 422, 500, 503}

MetricsInit ==
    [http |-> [k \in Paths \X Statuses |-> 0],
     webhook |-> [l \in Labels |-> 0],
     buckets |-> [i \in 1..Len(LATENCY_BUCKETS) |-> 0],
     inf |-> 0, count |-> 0, sum |-> 0]

inc_http_requests(m, path, status) ==
    [m EXCEPT !.http[<<path, status>>] = @ + 1]

\* Variant: the cell is assigned 1 where it should be increased by 1.
inc_webhook_requests_Assigns(m, result) ==
    [m EXCEPT !.webhook[result] = 1]

inc_webhook_requests(m, result) ==
    [m EXCEPT !.webhook[result] = @ + 1]

\* Variant: "<" in place of "<=".
InBucket_Strict(latency_ms, bucket) == latency_ms < bucket

\* if latency_ms <= bucket
InBucket(latency_ms, bucket) == latency_ms <= bucket

observe_latency(m, latency_ms) ==
    [m EXCEPT !.count = @ + 1,
              !.sum = @ + latency_ms,
              !.buckets = [i \in 1..Len(LATENCY_BUCKETS) |->
                              IF InBucket(latency_ms, LATENCY_BUCKETS[i])
                              THEN @[i] + 1 ELSE @[i]],
              !.inf = @ + 1]

\* Variant: the methods do not take self._lock.
LockFree_NoLock(holder) == TRUE

\* "with self._lock": entered when no thread holds the lock.
LockFree(holder) == holder = 0

\* The calls made on the collector by concurrent threads.
Threads == {1, 2}
Observe(latency_ms) == [op |-> "observe_latency", latency |-> latency_ms]
IncHttp == [op |-> "inc_http_requests", latency |-> 0]
IncWebhook == [op |-> "inc_webhook_requests", latency |-> 0]
Render == [op |-> "format_prometheus", latency |-> 0]
Latencies == {10, 30, 10001}
Calls == {Observe(l) : l \in Latencies} \cup {IncHttp, IncWebhook, Render}
HttpKey == <<"/webhook", 200>>
WebhookKey == "created"

\* The text of format_prometheus, by the numbers on its lines.
NoOutput ==
    [http |-> MetricsInit.http, webhook |-> MetricsInit.webhook,
     le |-> <<>>, inf |-> 0, count |-> 0, sum |-> 0]
ThreadIdle ==
    [pc |-> "idle", call |-> Render, tmp |-> 0, i |-> 1, cumulative |-> 0,
     out |-> NoOutput]
McInit ==
    [lock |-> 0, th |-> [t \in Threads |-> ThreadIdle], begun |-> 0,
     rendered |-> NoOutput,
     \* history kept for the properties, read by no action:
     done |-> [c \in Calls |-> 0], rendered_at |-> [c \in Calls |-> 0]]

\* ------------------------------------------------------------ state
VARIABLES
    secret,     \* settings.webhook_secret (cached for the process lifetime)
    schema,     \* whether init_db created the messages table at startup
    rows,       \* the committed rows of messages, in rowid order
    wlock,      \* the request whose connection holds the write lock, or 0
    now,        \* the wall clock, in seconds
    metrics,    \* the MetricsCollector
    req,        \* per request: its inputs, position and locals
    rd,         \* the GET /messages or GET /stats call in progress
    mc          \* the collector's lock and the threads inside its methods

vars == <<secret, schema, rows, wlock, now, metrics, req, rd, mc>>

\* A request slot before the request arrives.
Blank(pc) ==
    [pc |-> pc, body |-> "", sig |-> SigAbsent, start |-> 0, created |-> 0,
     staged |-> FALSE, is_dup |-> FALSE,
     result |-> "", status |-> 0, resp |-> RespOk, exc |-> "none",
     \* history kept for the properties, read by no action:
     sigChecked |-> FALSE, passed |-> FALSE, conc |-> FALSE,
     fault |-> "none", blockerId |-> <<>>,
     incs |-> <<>>, nobs |-> 0, existed |-> FALSE, grew |-> FALSE]

\* No read call yet.
NoFilters == [from |-> VMissing, since |-> VMissing, q |-> VMissing]
RdIdle ==
    [pc |-> "idle", op |-> "", status |-> 0,
     f |-> NoFilters, limit |-> NoParam, offset |-> NoParam, tie |-> "asc",
     total |-> 0, data |-> <<>>, rlimit |-> 0, roffset |-> 0,
     senders_count |-> 0, messages_per_sender |-> <<>>,
     first_message_ts |-> VNull, last_message_ts |-> VNull,
     start |-> 0, reason |-> "", exc |-> "none",
     \* history kept for the properties, read by no action:
     queried |-> FALSE, changed |-> FALSE, fault |-> "none"]

Init ==
    /\ rd = RdIdle
    /\ mc = McInit
    /\ secret \in Secrets
    /\ schema \in BOOLEAN
    /\ rows = <<>>
    /\ wlock = 0
    /\ now = 0
    /\ metrics = MetricsInit
    /\ req = [r \in Reqs |-> Blank("idle")]

\* time passes
Tick ==
    /\ now < MaxClock
    /\ now' = now + 1
    /\ UNCHANGED <<secret, schema, rows, wlock, metrics, req, rd, mc>>

\* Variant: the except block counts a request that a branch has counted.
HandlerIncs_ExceptCountsAgain(o) ==
    IF o.kind = "raise" THEN <<"validation_error", o.result>> ELSE <<o.result>>

\* The labels the handler passes to metrics.inc_webhook_requests on its
\* way to outcome o: each terminal branch increments once, then returns.
HandlerIncs(o) == <<o.result>>

RECURSIVE IncAll(_, _)
IncAll(m, labels) ==
    IF labels = <<>> THEN m
    ELSE IncAll(inc_webhook_requests(m, Head(labels)), Tail(labels))

\* The handler ends here with outcome o and returns its response.
Finish(r, inp, o, fault, blockerId) ==
    /\ metrics' = IncAll(metrics, HandlerIncs(o))
    /\ req' = [req EXCEPT ![r].pc = "respond", ![r].body = inp.body,
                          ![r].sig = inp.sig, ![r].conc = inp.conc,
                          ![r].start = IF req[r].pc = "idle" THEN now ELSE @,
                          ![r].result = o.result,
                          ![r].status = o.status, ![r].resp = o.resp,
                          ![r].sigChecked = o.sigChecked, ![r].exc = o.exc,
                          ![r].staged = FALSE,
                          ![r].fault = fault, ![r].blockerId = blockerId,
                          ![r].incs = @ \o HandlerIncs(o)]

\* logging_middleware up to call_next and the handler up to its first use
\* of shared state.  The gates read only the request and the cached
\* settings, so they are evaluated as the request arrives.
\* A request stopped by the secret, signature, parse or validation gate, or
\* by an exception raised in one of them:
GateStop(r, inputs) ==
    /\ req[r].pc = "idle"
    /\ \E inp \in inputs :
          /\ GateOf[secret, inp].kind # "pass"
          /\ Finish(r, [body |-> inp.body, sig |-> inp.sig, conc |-> FALSE],
                    GateOf[secret, inp], "none", <<>>)
    /\ UNCHANGED <<secret, schema, rows, wlock, now>>

\* All gates passed: insert_message is entered and reads the clock.
GatePass(r, inputs) ==
    /\ req[r].pc = "idle"
    /\ \E inp \in inputs :
          /\ GateOf[secret, inp].kind = "pass"
          /\ req' = [req EXCEPT ![r].pc = "exec", ![r].body = inp.body,
                                ![r].sig = inp.sig, ![r].start = now,
                                ![r].sigChecked = TRUE, ![r].passed = TRUE,
                                ![r].created = now]
    /\ UNCHANGED <<secret, schema, rows, wlock, now, metrics>>

MsgId(r) == Message(req[r].body).message_id

\* Another request with the same message_id is inside insert_message or has
\* not yet recorded its result.
Overlaps(r) ==
    \E q \in Reqs \ {r} :
        req[q].pc \in {"exec", "commit", "result"} /\ MsgId(q) = MsgId(r)

\* cursor.execute(INSERT) on a fresh connection: the statement takes the
\* write lock and is checked against the committed rows; the lock is kept
\* until the connection commits or rolls back.  An error that
\* insert_message does not catch rolls back and reaches the handler's
\* except block.
Execute(r) ==
    /\ req[r].pc = "exec"
    /\ schema
    /\ WriteLockFree(wlock, r)
    /\ LET st == InsertStmt(rows, Row(Message(req[r].body), req[r].created))
           ret == InsertReturn(st.err)
       IN  IF ret.raised
           THEN /\ Finish(r, req[r], UnexpectedError(TRUE, st.err), "none", <<>>)
                /\ UNCHANGED wlock
           ELSE /\ req' = [req EXCEPT ![r].pc = "commit",
                                      ![r].conc = Overlaps(r),
                                      ![r].staged = (st.err = "none"),
                                      ![r].is_dup = ret.is_dup,
                                      ![r].existed = HasId(rows, MsgId(r))]
                /\ wlock' = r
                /\ UNCHANGED metrics
    /\ UNCHANGED <<secret, schema, rows, now>>

\* The faults the statement can end with instead: the table was never
\* created, the write lock stayed with another connection until the busy
\* timeout of sqlite3.connect ran out, or an I/O error.
ExecuteFaults(r) ==
    (IF schema THEN {} ELSE {"no such table"})
        \cup (IF WriteLockFree(wlock, r) THEN {} ELSE {"database is locked"})
        \cup {"disk I/O error"}

ExecuteFail(r) ==
    /\ req[r].pc = "exec"
    /\ \E e \in ExecuteFaults(r) :
          LET ret == InsertReturn(e)
              blocker == IF e = "database is locked" THEN MsgId(wlock) ELSE <<>>
          IN  IF ret.raised
              THEN Finish(r, [req[r] EXCEPT !.conc = Overlaps(r)],
                          UnexpectedError(TRUE, e), e, blocker)
              ELSE /\ req' = [req EXCEPT ![r].pc = "result", ![r].is_dup = ret.is_dup,
                                         ![r].conc = Overlaps(r),
                                         ![r].fault = e, ![r].blockerId = blocker]
                   /\ UNCHANGED metrics
    /\ UNCHANGED <<secret, schema, rows, wlock, now>>

\* Variant: the connection is neither committed nor closed when the with
\* block is left, so its write lock stays.
Commit_KeepsLock(r) ==
    /\ req[r].pc = "commit"
    /\ rows' = IF req[r].staged
               THEN Append(rows, Row(Message(req[r].body), req[r].created))
               ELSE rows
    /\ wlock' = wlock
    /\ req' = [req EXCEPT ![r].pc = "result", ![r].staged = FALSE,
                          ![r].grew = Len(rows') > Len(rows)]
    /\ UNCHANGED <<secret, schema, now, metrics>>

\* Variant: the statement is an upsert; a duplicate overwrites the stored
\* row with the values of the new request.
Commit_Upserts(r) ==
    /\ req[r].pc = "commit"
    /\ rows' = IF req[r].staged
               THEN Append(rows, Row(Message(req[r].body), req[r].created))
               ELSE [i \in 1..Len(rows) |->
                        IF rows[i].message_id = MsgId(r)
                        THEN Row(Message(req[r].body), req[r].created)
                        ELSE rows[i]]
    /\ wlock' = IF wlock = r THEN 0 ELSE wlock
    /\ req' = [req EXCEPT ![r].pc = "result", ![r].staged = FALSE,
                          ![r].grew = Len(rows') > Len(rows)]
    /\ UNCHANGED <<secret, schema, now, metrics>>

\* conn.commit() as the with block is left: the staged row becomes visible
\* and the write lock is released.
Commit(r) ==
    /\ req[r].pc = "commit"
    /\ rows' = IF req[r].staged
               THEN Append(rows, Row(Message(req[r].body), req[r].created))
               ELSE rows
    /\ wlock' = IF wlock = r THEN 0 ELSE wlock
    /\ req' = [req EXCEPT ![r].pc = "result", ![r].staged = FALSE,
                          ![r].grew = Len(rows') > Len(rows)]
    /\ UNCHANGED <<secret, schema, now, metrics>>

\* conn.commit() raises: rollback, close, and the error reaches the handler.
CommitFail(r) ==
    /\ req[r].pc = "commit"
    /\ req[r].staged
    /\ wlock' = IF wlock = r THEN 0 ELSE wlock
    /\ LET ret == InsertReturn("disk I/O error")
       IN  IF ret.raised
           THEN Finish(r, req[r], UnexpectedError(TRUE, "disk I/O error"), "commit failed", <<>>)
           ELSE /\ req' = [req EXCEPT ![r].pc = "result", ![r].is_dup = ret.is_dup,
                                      ![r].staged = FALSE, ![r].fault = "commit failed"]
                /\ UNCHANGED metrics
    /\ UNCHANGED <<secret, schema, rows, now>>

\* insert_message returned (success, is_dup): label, counter, 200.
Result(r) ==
    /\ req[r].pc = "result"
    /\ Finish(r, req[r], Outcome("pass", ResultLabel(req[r].is_dup), 200, RespOk, TRUE, "none"),
              req[r].fault, req[r].blockerId)
    /\ UNCHANGED <<secret, schema, rows, wlock, now>>

\* logging_middleware after call_next: the HTTP counter and the latency.
\* The response then leaves and the request's objects are gone; what the
\* properties read of a finished request is kept.
MwPost(r) ==
    /\ req[r].pc = "respond"
    /\ metrics' = observe_latency(
                      inc_http_requests(metrics, "/webhook", req[r].status),
                      (now - req[r].start) * 1000)
    /\ req' = [req EXCEPT ![r] = [Blank("done") EXCEPT
                                     !.status = req[r].status,
                                     !.result = req[r].result,
                                     !.passed = req[r].passed,
                                     !.incs = req[r].incs,
                                     !.nobs = req[r].nobs + 1]]
    /\ UNCHANGED <<secret, schema, rows, wlock, now>>

\* Requests are numbered in the order of their arrival.
InOrder(r) == \A q \in Reqs : q < r => req[q].pc # "idle"
\* ... and here each one arrives after the earlier ones have been answered.
AfterOthers(r) == \A q \in Reqs : q < r => req[q].pc = "done"

StoreStep(r) ==
    \/ Execute(r)
    \/ ExecuteFail(r)
    \/ Commit(r)
    \/ CommitFail(r)
    \/ Result(r)

\* Requests served concurrently.
Next ==
    \/ Tick
    \/ \E r \in Reqs : InOrder(r) /\ GateStop(r, CoreInputs) /\ UNCHANGED <<rd, mc>>
    \/ \E r \in Reqs : InOrder(r) /\ GatePass(r, CoreInputs) /\ UNCHANGED <<rd, mc>>
    \/ (\E r \in Reqs : StoreStep(r)) /\ UNCHANGED <<rd, mc>>
    \/ \E r \in Reqs : MwPost(r) /\ UNCHANGED <<rd, mc>>

Spec == Init /\ [][Next]_vars

\* Requests served one after the other, with every input of the catalogue.
NextSeq ==
    \/ Tick
    \/ \E r \in Reqs : AfterOthers(r) /\ GateStop(r, Inputs) /\ UNCHANGED <<rd, mc>>
    \/ \E r \in Reqs : AfterOthers(r) /\ GatePass(r, Inputs) /\ UNCHANGED <<rd, mc>>
    \/ (\E r \in Reqs : StoreStep(r)) /\ UNCHANGED <<rd, mc>>
    \/ \E r \in Reqs : MwPost(r) /\ UNCHANGED <<rd, mc>>

SpecSeq == Init /\ [][NextSeq]_vars

\* Requests served concurrently, every store call returning in the end (with
\* a result or, after the busy timeout, with an error) and every response
\* leaving through the middleware.
LiveInputs ==
    {[body |-> b, sig |-> Hmac("s", b)] : b \in {"m1a", "m1b", "from_noplus"}}
        \cup {[body |-> "m1a", sig |-> SigAbsent]}
NextLive ==
    \/ \E r \in Reqs : InOrder(r) /\ GateStop(r, LiveInputs) /\ UNCHANGED <<rd, mc>>
    \/ \E r \in Reqs : InOrder(r) /\ GatePass(r, LiveInputs) /\ UNCHANGED <<rd, mc>>
    \/ (\E r \in Reqs : StoreStep(r)) /\ UNCHANGED <<rd, mc>>
    \/ \E r \in Reqs : MwPost(r) /\ UNCHANGED <<rd, mc>>
StoreCallsReturn ==
    \A r \in Reqs :
        /\ WF_vars(StoreStep(r) /\ UNCHANGED <<rd, mc>>)
        /\ WF_vars(MwPost(r) /\ UNCHANGED <<rd, mc>>)
SpecLive == Init /\ [][NextLive]_vars /\ StoreCallsReturn

\* ------------------------------------- GET /messages and GET /stats
MaxRows == 3
MaxSenders == 11

\* The messages the store is filled with on the read side.
Stored(id, from, ts, text) ==
    [message_id |-> id, from_ |-> from, to |-> P17, ts |-> ts, text |-> text]
Catalogue ==
    {Stored(<<"b">>, P15, T1, VStr(<<"H", "i">>)),
     Stored(<<"a">>, P16, T1, VStr(<<"h", "i", "!">>)),
     Stored(<<"B">>, P15, T2, VNull),
     Stored(<<"a", "b">>, P16, T2, VStr(<<"x">>))}

\* A store with n senders of one message each, one of them (heavy, if not 0)
\* with a second message.
TwoDigits(i) == <<DigitSeq[(i \div 10) + 1], DigitSeq[(i % 10) + 1]>>
SenderStore(n, heavy) ==
    [i \in 1..n |->
        Row(Stored(<<"s">> \o TwoDigits(i), <<"+">> \o TwoDigits(i), T1, VNull), 0)]
        \o (IF heavy = 0 THEN <<>>
            ELSE <<Row(Stored(<<"t">>, <<"+">> \o TwoDigits(heavy), T2, VNull), 0)>>)
SenderStores ==
    {SenderStore(n, heavy) : n \in {TopN, MaxSenders}, heavy \in {0, 1}}
        \cup {SenderStore(MaxSenders, MaxSenders)}

DefaultLimit == 50
MaxLimit == 100
ValidLimit(v) == ParamGe(v, 1) /\ ParamLe(v, MaxLimit)
ValidOffset(v) == ParamGe(v, 0)

\* The query strings tried: every filter combination with the accepted
\* limit/offset values, and the rejected limit/offset values.
FilterSets ==
    [from : {VMissing, VStr(<<>>), VStr(P15)},
     since : {VMissing, VStr(T2)},
     q : {VMissing, VStr(<<>>), VStr(<<"h", "i">>), VStr(<<"_">>)}]
MessageQueries ==
    [f : FilterSets,
     limit : {NoParam, IntParam(1), IntParam(2)},
     offset : {NoParam, IntParam(1), BeyondInt64}]
        \cup [f : {NoFilters},
              limit : {NoParam, IntParam(0), IntParam(MaxLimit), IntParam(MaxLimit + 1),
                       BeyondInt64},
              offset : {NoParam, IntParam(0 - 1), IntParam(MaxRows)}]

ReadInit ==
    /\ secret = "s"
    /\ schema = TRUE
    /\ rows \in {<<>>} \cup SenderStores
    /\ wlock = 0
    /\ now = 0
    /\ metrics = MetricsInit
    /\ req = [r \in Reqs |-> Blank("idle")]
    /\ rd = RdIdle
    /\ mc = McInit

\* One read call is followed from its start to its response.
ReadIdle == rd.pc = "idle"
ReadFrame == UNCHANGED <<secret, schema, wlock, now, metrics, req, mc>>

\* A webhook request stores a message (insert_message as one step).
StoreMessage(m) ==
    /\ Len(rows) < MaxRows
    /\ ~InsertReturn(InsertStmt(rows, Row(m, now)).err).raised
    /\ rows' = InsertStmt(rows, Row(m, now)).rows
    /\ rd' = [rd EXCEPT !.changed = @ \/ (rd.pc # "idle" /\ rows' # rows)]
    /\ ReadFrame

\* GET /messages with a limit or offset that Query(ge=, le=) refuses: the
\* handler is not called.
MessagesReject(query) ==
    /\ ReadIdle
    /\ \/ (query.limit.t = "int" /\ ~ValidLimit(query.limit))
       \/ (query.offset.t = "int" /\ ~ValidOffset(query.offset))
    /\ rd' = [RdIdle EXCEPT !.pc = "done", !.op = "messages", !.status = 422,
                            !.f = query.f, !.limit = query.limit,
                            !.offset = query.offset, !.start = now]
    /\ UNCHANGED rows
    /\ ReadFrame

\* GET /messages accepted, up to the first statement of storage.get_messages.
MessagesCount(query) ==
    LET limit == IF query.limit.t = "absent" THEN IntParam(DefaultLimit)
                 ELSE query.limit
        offset == IF query.offset.t = "absent" THEN IntParam(0) ELSE query.offset
    IN  /\ ReadIdle
        /\ ValidLimit(limit) /\ ValidOffset(offset)
        /\ rd' = [RdIdle EXCEPT !.pc = "select", !.op = "messages",
                                !.f = query.f, !.limit = query.limit,
                                !.offset = query.offset,
                                !.rlimit = limit, !.roffset = offset,
                                !.total = CountStmt(rows, query.f),
                                !.start = now, !.queried = TRUE]
        /\ UNCHANGED rows
        /\ ReadFrame

\* The second statement and the response.  An offset that does not fit a
\* SQLite INTEGER makes cursor.execute raise OverflowError, which nothing
\* catches: the client gets 500.
MessagesSelect ==
    /\ rd.pc = "select"
    /\ rd' = IF rd.roffset.big
             THEN [rd EXCEPT !.pc = "done", !.status = 500,
                             !.exc = "OverflowError"]
             ELSE [rd EXCEPT !.pc = "done", !.status = 200,
                             !.data = SelectStmt(rows, rd.f, rd.rlimit.n,
                                                 rd.roffset.n)]
    /\ UNCHANGED rows
    /\ ReadFrame

\* GET /stats: storage.get_stats, one statement at a time.
StatsTotal ==
    /\ ReadIdle
    /\ rd' = [RdIdle EXCEPT !.pc = "senders", !.op = "stats",
                            !.total = Len(rows), !.start = now,
                            !.queried = TRUE]
    /\ UNCHANGED rows
    /\ ReadFrame
StatsSenders ==
    /\ rd.pc = "senders"
    /\ rd' = [rd EXCEPT !.pc = "top",
                        !.senders_count = Cardinality(SenderSet(rows))]
    /\ UNCHANGED rows
    /\ ReadFrame
StatsTop ==
    /\ rd.pc = "top"
    /\ \E tie \in {"asc", "desc"} :
          rd' = [rd EXCEPT !.pc = "minmax", !.tie = tie,
                           !.messages_per_sender = TopSendersStmt(rows, tie)]
    /\ UNCHANGED rows
    /\ ReadFrame
StatsMinMax ==
    /\ rd.pc = "minmax"
    /\ rd' = [rd EXCEPT !.pc = "done", !.status = 200,
                        !.first_message_ts = MinMaxStmt(rows).first,
                        !.last_message_ts = MinMaxStmt(rows).last]
    /\ UNCHANGED rows
    /\ ReadFrame

ReadNext ==
    \/ \E m \in Catalogue : StoreMessage(m)
    \/ \E query \in MessageQueries : MessagesReject(query)
    \/ \E query \in MessageQueries : MessagesCount(query)
    \/ MessagesSelect
    \/ StatsTotal
    \/ StatsSenders
    \/ StatsTop
    \/ StatsMinMax

SpecRead == ReadInit /\ [][ReadNext]_vars

\* ------------------------------- every endpoint behind the middleware
\* Settings.is_ready: bool(self.webhook_secret)
SettingsIsReady(sec) == ~(sec \in {NoSecret, ""})

\* What sqlite3.connect and the first statement can meet besides a missing
\* table.
ConnectFaults == {"none", "unable to open database file"}

\* Variant: the statement is run without the try/except.
is_ready_Raises(sch, fault, rs) ==
    [ready |-> sch /\ fault = "none", raised |-> ~(sch /\ fault = "none"),
     rows |-> rs]

\* Variant: the probe inserts a row to see whether the table can be written.
is_ready_Writes(sch, fault, rs) ==
    [ready |-> sch /\ fault = "none", raised |-> FALSE,
     rows |-> IF sch /\ fault = "none"
              THEN InsertStmt(rs, Row(Stored(<<>>, P15, T1, VNull), 0)).rows
              ELSE rs]

\* Storage.is_ready: SELECT 1 FROM messages LIMIT 1 inside try/except
\* Exception; the statement reads and the commit that follows has nothing
\* to write.
is_ready(sch, fault, rs) ==
    [ready |-> sch /\ fault = "none", raised |-> FALSE, rows |-> rs]

\* The routes and the cells of the HTTP counter they can reach.
AllPaths ==
    {"/webhook", "/messages", "/stats", "/health/live", "/health/ready",
     "/metrics"}
PathOf(op) ==
    CASE op = "messages" -> "/messages"
      [] op = "stats" -> "/stats"
      [] op = "live" -> "/health/live"
      [] op = "ready" -> "/health/ready"
      [] op = "metrics" -> "/metrics"

OpsInputs ==
    {[body |-> b, sig |-> Hmac("s", b)] : b \in {"m1a", "m1b"}}
        \cup {[body |-> "m1a", sig |-> SigAbsent]}
OpsQueries ==
    [f : {NoFilters}, limit : {NoParam, IntParam(0)},
     offset : {NoParam, BeyondInt64}]

\* The database file outlives the process: at startup it may hold a message
\* of an earlier run.
OpsInit ==
    /\ secret \in Secrets
    /\ schema \in BOOLEAN
    /\ rows \in IF schema THEN {<<>>, <<Row(Message("m2max"), 0)>>} ELSE {<<>>}
    /\ wlock = 0
    /\ now = 0
    /\ metrics = [MetricsInit EXCEPT !.http = [k \in AllPaths \X Statuses |-> 0]]
    /\ req = [r \in Reqs |-> Blank("idle")]
    /\ rd = RdIdle
    /\ mc = McInit

\* GET /messages or GET /stats when init_db failed at startup: the first
\* statement raises sqlite3.OperationalError (no such table), which nothing
\* catches.
ReadNoTable(op) ==
    /\ ReadIdle
    /\ ~schema
    /\ rd' = [RdIdle EXCEPT !.pc = "done", !.op = op, !.status = 500,
                            !.exc = "OperationalError", !.start = now]
    /\ UNCHANGED rows
    /\ ReadFrame

\* GET /health/live
HealthLive ==
    /\ ReadIdle
    /\ rd' = [RdIdle EXCEPT !.pc = "done", !.op = "live", !.status = 200,
                            !.start = now]
    /\ UNCHANGED rows
    /\ ReadFrame

\* GET /health/ready: the settings first, then the store.
HealthReady ==
    /\ ReadIdle
    /\ \E fault \in ConnectFaults :
          LET st == is_ready(schema, fault, rows)
              probe == [RdIdle EXCEPT !.pc = "done", !.op = "ready",
                                      !.start = now, !.fault = fault]
          IN  IF ~SettingsIsReady(secret)
              THEN /\ rd' = [probe EXCEPT !.status = 503,
                                          !.reason = "WEBHOOK_SECRET not set"]
                   /\ UNCHANGED rows
              ELSE /\ rows' = st.rows
                   /\ rd' = IF st.raised
                            THEN [probe EXCEPT !.status = 500,
                                               !.exc = "OperationalError"]
                            ELSE IF ~st.ready
                            THEN [probe EXCEPT !.status = 503,
                                               !.reason = "database not ready"]
                            ELSE [probe EXCEPT !.status = 200]
    /\ ReadFrame

\* GET /metrics
MetricsGet ==
    /\ ReadIdle
    /\ rd' = [RdIdle EXCEPT !.pc = "done", !.op = "metrics", !.status = 200,
                            !.start = now]
    /\ UNCHANGED rows
    /\ ReadFrame

\* logging_middleware after call_next, for the GET routes.  An exception
\* that no handler caught is raised again by call_next: the lines after it
\* are skipped and the server's error middleware answers 500.
MwPostRead ==
    /\ rd.pc = "done"
    /\ metrics' = IF rd.exc # "none" THEN metrics
                  ELSE observe_latency(
                           inc_http_requests(metrics, PathOf(rd.op), rd.status),
                           (now - rd.start) * 1000)
    /\ rd' = [rd EXCEPT !.pc = "closed"]
    /\ UNCHANGED <<secret, schema, rows, wlock, now, req, mc>>

\* Webhook requests one after the other, and one GET request at any moment;
\* all within one second of the clock.
OpsNext ==
    \/ \E r \in Reqs : AfterOthers(r) /\ GateStop(r, OpsInputs) /\ UNCHANGED <<rd, mc>>
    \/ \E r \in Reqs : AfterOthers(r) /\ GatePass(r, OpsInputs) /\ UNCHANGED <<rd, mc>>
    \/ (\E r \in Reqs : StoreStep(r)) /\ UNCHANGED <<rd, mc>>
    \/ \E r \in Reqs : MwPost(r) /\ UNCHANGED <<rd, mc>>
    \/ \E query \in OpsQueries : MessagesReject(query)
    \/ \E query \in OpsQueries : schema /\ MessagesCount(query)
    \/ MessagesSelect
    \/ schema /\ StatsTotal
    \/ StatsSenders
    \/ StatsTop
    \/ StatsMinMax
    \/ \E op \in {"messages", "stats"} : ReadNoTable(op)
    \/ HealthLive
    \/ HealthReady
    \/ MetricsGet
    \/ MwPostRead

SpecOps == OpsInit /\ [][OpsNext]_vars

\* --------------------------- the collector under concurrent threads
MaxOps == 3

McFrame == UNCHANGED <<secret, schema, rows, wlock, now, req, rd>>
LastBucket == Len(LATENCY_BUCKETS)
FirstPc(call) ==
    CASE call.op = "observe_latency" -> "count_ld"
      [] call.op = "inc_http_requests" -> "http_ld"
      [] call.op = "inc_webhook_requests" -> "webhook_ld"
      [] call.op = "format_prometheus" -> "r_http"

MetricsStart ==
    /\ secret = "s"
    /\ schema = TRUE
    /\ rows = <<>>
    /\ wlock = 0
    /\ now = 0
    /\ metrics = MetricsInit
    /\ req = [r \in Reqs |-> Blank("idle")]
    /\ rd = RdIdle
    /\ mc = McInit

\* A thread calls a method of the collector and enters "with self._lock".
McBegin(t, call) ==
    /\ mc.th[t].pc = "idle"
    /\ mc.begun < MaxOps
    /\ LockFree(mc.lock)
    /\ mc' = [mc EXCEPT !.lock = t, !.begun = @ + 1,
                        !.th[t] = [ThreadIdle EXCEPT !.pc = FirstPc(call),
                                                     !.call = call]]
    /\ UNCHANGED metrics
    /\ McFrame

\* After a bucket: the next bucket, or the +Inf bucket after the last.
AfterBucket(th) ==
    IF th.i < LastBucket THEN [th EXCEPT !.pc = "bucket_ld", !.i = @ + 1]
    ELSE [th EXCEPT !.pc = "inf_ld"]

\* "x += 1" reads x (here) and writes it back (McStore).  For a bucket
\* the read is preceded by the test of the loop body.
McLoad(t) ==
    LET th == mc.th[t]
    IN  /\ th.pc \in {"count_ld", "sum_ld", "bucket_ld", "inf_ld", "http_ld",
                      "webhook_ld"}
        /\ mc' = [mc EXCEPT !.th[t] =
              CASE th.pc = "count_ld" ->
                      [th EXCEPT !.tmp = metrics.count, !.pc = "count_st"]
                [] th.pc = "sum_ld" ->
                      [th EXCEPT !.tmp = metrics.sum, !.pc = "sum_st"]
                [] th.pc = "bucket_ld" ->
                      IF InBucket(th.call.latency, LATENCY_BUCKETS[th.i])
                      THEN [th EXCEPT !.tmp = metrics.buckets[th.i],
                                      !.pc = "bucket_st"]
                      ELSE AfterBucket(th)
                [] th.pc = "inf_ld" ->
                      [th EXCEPT !.tmp = metrics.inf, !.pc = "inf_st"]
                [] th.pc = "http_ld" ->
                      [th EXCEPT !.tmp = metrics.http[HttpKey], !.pc = "http_st"]
                [] th.pc = "webhook_ld" ->
                      [th EXCEPT !.tmp = metrics.webhook[WebhookKey],
                                 !.pc = "webhook_st"]]
        /\ UNCHANGED metrics
        /\ McFrame

\* The method returns: the lock is released.
Leave(t) ==
    [mc EXCEPT !.lock = 0, !.th[t] = ThreadIdle,
               !.done[mc.th[t].call] = @ + 1]

McStore(t) ==
    LET th == mc.th[t]
    IN  /\ th.pc \in {"count_st", "sum_st", "bucket_st", "inf_st", "http_st",
                      "webhook_st"}
        /\ metrics' =
              CASE th.pc = "count_st" -> [metrics EXCEPT !.count = th.tmp + 1]
                [] th.pc = "sum_st" ->
                      [metrics EXCEPT !.sum = th.tmp + th.call.latency]
                [] th.pc = "bucket_st" ->
                      [metrics EXCEPT !.buckets[th.i] = th.tmp + 1]
                [] th.pc = "inf_st" -> [metrics EXCEPT !.inf = th.tmp + 1]
                [] th.pc = "http_st" ->
                      [metrics EXCEPT !.http[HttpKey] = th.tmp + 1]
                [] th.pc = "webhook_st" ->
                      [metrics EXCEPT !.webhook[WebhookKey] = th.tmp + 1]
        /\ mc' =
              CASE th.pc = "count_st" -> [mc EXCEPT !.th[t].pc = "sum_ld"]
                [] th.pc = "sum_st" ->
                      [mc EXCEPT !.th[t].pc = "bucket_ld", !.th[t].i = 1]
                [] th.pc = "bucket_st" -> [mc EXCEPT !.th[t] = AfterBucket(th)]
                [] th.pc \in {"inf_st", "http_st", "webhook_st"} -> Leave(t)
        /\ McFrame

\* format_prometheus, a line (or a block of counter lines) at a time.
McRender(t) ==
    LET th == mc.th[t]
        cumulative == th.cumulative + metrics.buckets[th.i]
    IN  /\ th.pc \in {"r_http", "r_webhook", "r_bucket", "r_inf", "r_count", "r_sum"}
        /\ mc' =
              CASE th.pc = "r_http" ->
                      [mc EXCEPT !.th[t].out.http = metrics.http,
                                 !.th[t].pc = "r_webhook"]
                [] th.pc = "r_webhook" ->
                      [mc EXCEPT !.th[t].out.webhook = metrics.webhook,
                                 !.th[t].pc = "r_bucket"]
                [] th.pc = "r_bucket" ->
                      [mc EXCEPT !.th[t].cumulative = cumulative,
                                 !.th[t].out.le = Append(@, cumulative),
                                 !.th[t].i = IF th.i < LastBucket THEN @ + 1 ELSE @,
                                 !.th[t].pc = IF th.i < LastBucket THEN "r_bucket"
                                              ELSE "r_inf"]
                [] th.pc = "r_inf" ->
                      [mc EXCEPT !.th[t].out.inf = metrics.inf,
                                 !.th[t].pc = "r_count"]
                [] th.pc = "r_count" ->
                      [mc EXCEPT !.th[t].out.count = metrics.count,
                                 !.th[t].pc = "r_sum"]
                [] th.pc = "r_sum" ->
                      [Leave(t) EXCEPT
                          !.rendered = [th.out EXCEPT !.sum = metrics.sum],
                          !.rendered_at = mc.done]
        /\ UNCHANGED metrics
        /\ McFrame

MetricsNext ==
    \/ \E t \in Threads : \E call \in Calls : McBegin(t, call)
    \/ \E t \in Threads : McLoad(t)
    \/ \E t \in Threads : McStore(t)
    \/ \E t \in Threads : McRender(t)

SpecMetrics == MetricsStart /\ [][MetricsNext]_vars

\* ================================================================
\* Properties
\* ================================================================
Answered(r) == req[r].pc = "respond"
NoDuplicateRows ==
    \A i, j \in 1..Len(rows) : rows[i].message_id = rows[j].message_id => i = j
SameLabelCount(l) ==
    Cardinality({r \in Reqs : req[r].pc \in {"respond", "done"} /\ req[r].result = l})

\* C1 (as stated): every request that passed the secret, signature and
\* validation gates is answered 200 {"status":"ok"}, and the store holds
\* exactly one row for its message_id.
C1_Original ==
    \A r \in Reqs :
        (Answered(r) /\ req[r].passed) =>
            /\ req[r].status = 200
            /\ req[r].resp = RespOk
            /\ CountId(rows, MsgId(r)) = 1

\* C1 (amended): no two rows share a message_id, and every request that
\* passed the gates and whose insert met no storage fault is answered 200
\* {"status":"ok"} with exactly one row stored for its message_id, whether
\* it was the first or a repeated post.
C1_Idempotent ==
    /\ NoDuplicateRows
    /\ \A r \in Reqs :
          (Answered(r) /\ req[r].passed /\ req[r].fault = "none") =>
              /\ req[r].status = 200
              /\ req[r].resp = RespOk
              /\ CountId(rows, MsgId(r)) = 1

\* Two answered posts of one message_id with different bodies, both 200.
C1_Witness ==
    \E r1, r2 \in Reqs :
        /\ r1 # r2 /\ Answered(r1) /\ Answered(r2)
        /\ req[r1].passed /\ req[r2].passed
        /\ req[r1].body # req[r2].body /\ MsgId(r1) = MsgId(r2)
        /\ req[r1].status = 200 /\ req[r2].status = 200
        /\ CountId(rows, MsgId(r1)) = 1

\* C2: an insert whose message_id is already stored leaves the store as it
\* is, and no step ever changes or removes a stored row, so the row keeps
\* the first writer's from, to, ts, text and created_at.
C2_DuplicateInsertIsNoOp ==
    [][/\ \A i \in 1..Len(rows) : i <= Len(rows') /\ rows'[i] = rows[i]
       /\ \A r \in Reqs :
             (/\ req[r].pc \in {"exec", "commit"}
              /\ req'[r].pc # req[r].pc
              /\ HasId(rows, MsgId(r))) => rows' = rows]_vars

\* A duplicate has returned whose fields and clock reading all differ from
\* the stored row's.
C2_Witness ==
    \E r \in Reqs : \E i \in 1..Len(rows) :
        /\ req[r].pc = "result" /\ req[r].is_dup
        /\ rows[i].message_id = MsgId(r)
        /\ rows[i].from_msisdn # Message(req[r].body).from_
        /\ rows[i].to_msisdn # Message(req[r].body).to
        /\ rows[i].ts # Message(req[r].body).ts
        /\ rows[i].text # Message(req[r].body).text
        /\ rows[i].created_at # req[r].created

\* C3 (as stated): a request that met another request with the same
\* message_id in the store observes inserted or duplicate, never a storage
\* error, and one row is stored (a table that exists and no I/O error
\* being granted).
C3_Original ==
    \A r \in Reqs :
        (/\ Answered(r) /\ req[r].passed /\ req[r].conc /\ schema
         /\ req[r].fault \notin {"disk I/O error", "commit failed"}) =>
            /\ req[r].result \in {"created", "duplicate"}
            /\ CountId(rows, MsgId(r)) = 1

\* C3 (amended): in every interleaving at most one row is stored per
\* message_id; of the requests with one message_id whose insert met no
\* storage fault at most one observes inserted, each of them observes
\* inserted or duplicate and then exactly one row is stored; a request whose
\* insert met a fault (the lock wait timing out among them) observes
\* server_error and adds nothing.
C3_ConcurrentSameId ==
    /\ NoDuplicateRows
    /\ \A r \in Reqs :
          (req[r].pc \in {"result", "respond"} /\ req[r].passed) =>
              IF req[r].fault = "none"
              THEN /\ CountId(rows, MsgId(r)) = 1
                   /\ req[r].grew = ~req[r].is_dup
                   /\ Answered(r) => req[r].result = ResultLabel(req[r].is_dup)
              ELSE /\ Answered(r) /\ req[r].result = "server_error"
                   /\ ~req[r].grew
    /\ \A r1, r2 \in Reqs :
          (/\ r1 # r2
           /\ req[r1].pc \in {"result", "respond"} /\ req[r1].passed
           /\ req[r2].pc \in {"result", "respond"} /\ req[r2].passed
           /\ req[r1].fault = "none" /\ req[r2].fault = "none"
           /\ MsgId(r1) = MsgId(r2)) => (req[r1].is_dup \/ req[r2].is_dup)

\* Two overlapping requests with one message_id: one created, one duplicate.
C3_Witness ==
    \E r1, r2 \in Reqs :
        /\ Answered(r1) /\ Answered(r2) /\ MsgId(r1) = MsgId(r2)
        /\ req[r1].conc /\ req[r2].conc
        /\ req[r1].result = "created" /\ req[r2].result = "duplicate"
        /\ CountId(rows, MsgId(r1)) = 1

\* C4: a request whose handler has returned has incremented the result
\* counter once, under the label of its outcome, and a request whose
\* response has left has in addition recorded one latency observation; so
\* each label's counter is the number of requests that ended with it and the
\* histogram's count is the number of finished requests.
C4_OneResultOneLatency ==
    /\ \A r \in Reqs :
          /\ Answered(r) =>
                /\ req[r].incs = <<req[r].result>> /\ req[r].nobs = 0
                /\ req[r].status \in Statuses
          /\ req[r].pc = "done" =>
                /\ req[r].incs = <<req[r].result>> /\ req[r].nobs = 1
                /\ req[r].status \in Statuses
          /\ req[r].pc \notin {"respond", "done"} =>
                req[r].incs = <<>> /\ req[r].nobs = 0
    /\ \A l \in Labels : metrics.webhook[l] = SameLabelCount(l)
    /\ metrics.count = Cardinality({r \in Reqs : req[r].pc = "done"})

\* One request ended in the except block (500), another at a gate.
C4_Witness ==
    \E r1, r2 \in Reqs :
        /\ req[r1].pc = "done" /\ req[r1].status = 500
        /\ req[r2].pc = "done" /\ req[r2].status \in {401, 422}
        /\ metrics.webhook["server_error"] = 1
        /\ metrics.count = 2

\* A secret is configured and the header is not the hex HMAC-SHA256 of the
\* raw body under it.
BadSignature(r) ==
    /\ ~(secret \in {NoSecret, ""})
    /\ req[r].sig # Hmac(secret, req[r].body)
CorrectlySigned(r) ==
    /\ ~(secret \in {NoSecret, ""})
    /\ req[r].sig = Hmac(secret, req[r].body)

\* C5: with a secret configured, a request whose X-Signature is absent,
\* empty or any string other than the hex HMAC-SHA256 of the raw body,
\* non-ASCII strings included, ends as invalid_signature with status 401 and
\* detail "invalid signature", never as a 500.
C5_BadSignatureIs401 ==
    \A r \in Reqs :
        (Answered(r) /\ BadSignature(r)) =>
            /\ req[r].result = "invalid_signature"
            /\ req[r].status = 401
            /\ req[r].resp = RespDetail("invalid signature")
            /\ req[r].exc = "none"

\* C6: with no secret configured (unset or empty) every request ends as
\* server_error with status 503 and detail "server not ready", the signature
\* is never checked and no row is ever stored.
C6_NoSecretIs503 ==
    (secret \in {NoSecret, ""}) =>
        /\ rows = <<>>
        /\ \A r \in Reqs :
              /\ req[r].pc \in {"idle", "respond", "done"}
              /\ Answered(r) =>
                    /\ req[r].result = "server_error"
                    /\ req[r].status = 503
                    /\ req[r].resp = RespDetail("server not ready")
                    /\ ~req[r].sigChecked
                    /\ ~req[r].passed

\* The secret is the empty string and the request carries the HMAC of its
\* valid body under the empty key: answered 503.
C6_Witness ==
    /\ secret = ""
    /\ \E r \in Reqs :
          /\ Answered(r) /\ req[r].sig = Hmac("", req[r].body)
          /\ BodyOf[req[r].body].kind = "object"
          /\ WebhookMessageErrors(BodyOf[req[r].body].f) = <<>>
          /\ req[r].status = 503

\* C7: a correctly signed request whose body is not the expected JSON
\* object (not JSON, not decodable as text, or JSON that is not an object)
\* ends as validation_error with status 422 and detail "Invalid JSON", and
\* nothing is stored.
C7_UnparseableIs422 ==
    \A r \in Reqs :
        (/\ Answered(r) /\ CorrectlySigned(r)
         /\ BodyOf[req[r].body].kind # "object") =>
            /\ req[r].result = "validation_error"
            /\ req[r].status = 422
            /\ req[r].resp = RespDetail("Invalid JSON")
            /\ ~req[r].passed /\ ~req[r].grew

\* The field constraints as the documentation states them: message_id a
\* non-empty string, from and to a "+" followed by digits only, ts of the
\* form YYYY-MM-DDTHH:MM:SSZ and a calendar instant, text at most 4096.
ViolatesConstraint(f) ==
    \/ f.message_id.t # "str" \/ StrLen(f.message_id) < 1
    \/ f.from.t # "str" \/ ~E164Full(f.from.s)
    \/ f.to.t # "str" \/ ~E164Full(f.to.s)
    \/ f.ts.t # "str" \/ ~IsoShape(f.ts.s) \/ ~FromIsoFormatOk(f.ts.s)
    \/ f.text.t \notin {"missing", "null", "str"}
    \/ (f.text.t = "str" /\ StrLen(f.text) > MaxTextLen)

\* C8: a correctly signed request whose body is a JSON object violating at
\* least one field constraint ends as validation_error with status 422, its
\* detail a non-empty list of errors each with loc, msg and type, and
\* nothing is stored.
C8_InvalidFieldsAre422 ==
    \A r \in Reqs :
        (/\ Answered(r) /\ CorrectlySigned(r)
         /\ BodyOf[req[r].body].kind = "object"
         /\ ViolatesConstraint(BodyOf[req[r].body].f)) =>
            /\ req[r].result = "validation_error"
            /\ req[r].status = 422
            /\ req[r].resp.kind = "detail_list"
            /\ req[r].resp.errors # <<>>
            /\ \A i \in 1..Len(req[r].resp.errors) :
                  DOMAIN req[r].resp.errors[i] = {"loc", "msg", "type"}
            /\ ~req[r].passed /\ ~req[r].grew

\* C9: a request whose insert met a storage fault, or in which anything
\* unexpected was raised after the secret check, ends as server_error with
\* status 500 and detail "internal server error"; it is never reported as
\* 200, created or duplicate, and it adds no row.
C9_FaultIs500 ==
    \A r \in Reqs :
        (Answered(r) /\ (req[r].fault # "none" \/ req[r].exc # "none")) =>
            /\ req[r].result = "server_error"
            /\ req[r].status = 500
            /\ req[r].resp = RespDetail("internal server error")
            /\ ~req[r].grew

\* A request that waited for the write lock held by another and timed out.
C9_Witness ==
    \E r \in Reqs :
        /\ Answered(r) /\ req[r].fault = "database is locked"
        /\ req[r].conc /\ req[r].status = 500

\* C10: a request that passed all gates and whose insert returned is
\* recorded as created exactly when it added a row and as duplicate exactly
\* when a row with its message_id was already stored; either way it is
\* answered 200 {"status":"ok"}.
C10_CreatedIffRowAdded ==
    \A r \in Reqs :
        (Answered(r) /\ req[r].passed /\ req[r].fault = "none") =>
            /\ req[r].status = 200
            /\ req[r].resp = RespOk
            /\ (req[r].result = "created") = req[r].grew
            /\ (req[r].result = "duplicate") = req[r].existed
            /\ req[r].grew # req[r].existed

\* One request recorded created and another, with the same message_id,
\* recorded duplicate; both got the same response.
C10_Witness ==
    \E r1, r2 \in Reqs :
        /\ Answered(r1) /\ req[r1].pc = req[r2].pc
        /\ req[r1].result = "created" /\ req[r1].grew
        /\ req[r2].result = "duplicate" /\ req[r2].existed
        /\ req[r1].status = req[r2].status /\ req[r1].resp = req[r2].resp

\* ------------------------------------------------ all the endpoints
GetAnswered(op) == rd.op = op /\ rd.pc \in {"done", "closed"}

\* C21: GET /health/live is always answered 200.  GET /health/ready is
\* answered 200 exactly when a non-empty secret is configured and the store
\* can be opened and has the messages table, and otherwise 503 with a
\* reason; the check raises nothing, whether the store cannot be opened or
\* the table was never created.
C21_HealthProbes ==
    /\ GetAnswered("live") => rd.status = 200
    /\ GetAnswered("ready") =>
          /\ rd.exc = "none"
          /\ rd.status \in {200, 503}
          /\ (rd.status = 200) =
                (/\ secret \notin {NoSecret, ""}
                 /\ schema
                 /\ rd.fault = "none")
          /\ rd.status = 503 => rd.reason # ""

\* A secret is configured and the table was never created: 503 with the
\* reason of the store.
C21_Witness ==
    /\ GetAnswered("ready")
    /\ secret = "s" /\ ~schema /\ rd.fault = "none"
    /\ rd.status = 503 /\ rd.reason = "database not ready"

\* rs is the beginning of rs2, row for row.
IsPrefix(rs, rs2) ==
    /\ Len(rs) <= Len(rs2)
    /\ \A i \in 1..Len(rs) : rs2[i] = rs[i]

\* C23: over any sequence of webhook, query, stats, health and metrics
\* requests a stored row is never changed and never removed: every step
\* leaves the rows it found as they were and at most adds one.
C23_RowsOnlyGrow == [][IsPrefix(rows, rows')]_vars

\* A second request with the message_id of a stored row and other field
\* values has been answered, a GET request has been served, and the row
\* holds the values of the first request.
C23_Witness ==
    /\ \E r \in Reqs :
          /\ Answered(r) /\ req[r].body = "m1b" /\ req[r].is_dup
          /\ req[r].status = 200
    /\ rd.pc = "closed"
    /\ \E i \in 1..Len(rows) :
          /\ rows[i].message_id = Message("m1b").message_id
          /\ rows[i].from_msisdn = Message("m1a").from_
          /\ rows[i].from_msisdn # Message("m1b").from_

\* C29: a step of a query, stats or readiness request leaves the stored
\* messages as they are; and these requests are served whatever the secret
\* is, set or not: with the table present and parameters the store can
\* take, queries and stats are answered 200, and readiness is answered.
ReadsServed ==
    /\ (GetAnswered("messages") /\ rd.queried /\ rd.exc = "none")
          => rd.status = 200
    /\ (GetAnswered("stats") /\ schema) => rd.status = 200
    /\ GetAnswered("ready") => rd.status \in {200, 503}
C29_ReadsLeaveStore ==
    /\ [][rd' # rd => rows' = rows]_vars
    /\ []ReadsServed

\* No secret is configured and the stats of a store holding a message have
\* been answered.
C29_Witness ==
    /\ secret = NoSecret
    /\ GetAnswered("stats") /\ rd.status = 200
    /\ rd.total = 1 /\ Len(rows) = 1

\* The requests that have been answered with path and status k.
Completed(k) ==
    Cardinality({r \in Reqs : req[r].pc = "done" /\ k = <<"/webhook", req[r].status>>})
        + (IF rd.pc = "closed" /\ k = <<PathOf(rd.op), rd.status>> THEN 1 ELSE 0)
RECURSIVE SumCells(_, _)
SumCells(cells, keys) ==
    IF keys = {} THEN 0
    ELSE LET k == CHOOSE k \in keys : TRUE
         IN  cells[k] + SumCells(cells, keys \ {k})
NoRequestInFlight ==
    /\ \A r \in Reqs : req[r].pc \in {"idle", "done"}
    /\ rd.pc \in {"idle", "closed"}

\* C30: every completed HTTP request has added one to the cell of its path
\* and of the status it returned, and to no other, and has recorded one
\* latency; so with no request in flight the cells add up to the count of
\* the histogram.
C30_OneCellOneLatency ==
    /\ \A k \in DOMAIN metrics.http : metrics.http[k] = Completed(k)
    /\ metrics.count = SumCells([k \in DOMAIN metrics.http |-> Completed(k)],
                                DOMAIN metrics.http)
    /\ NoRequestInFlight =>
          SumCells(metrics.http, DOMAIN metrics.http) = metrics.count

\* C22: a slow store call does not deadlock other requests.  The write lock
\* of the store is held by a request only inside insert_message, never from
\* arrival to response; a step that updates the metrics is taken by a
\* request that holds no store lock; and if every store call returns, every
\* request that has arrived gets its response.
C22_NoLockAcrossRequest ==
    /\ [](\A r \in Reqs : wlock = r => req[r].pc = "commit")
    /\ [][metrics' # metrics =>
            \A r \in Reqs : req'[r] # req[r] => wlock' # r]_vars
    /\ \A r \in Reqs :
          (req[r].pc \in {"exec", "commit", "result", "respond"})
              ~> (req[r].pc = "done")

\* A request has been answered while another one is still inside
\* insert_message with the write lock.
C22_Witness ==
    \E r1, r2 \in Reqs :
        /\ req[r1].pc = "commit" /\ wlock = r1
        /\ req[r2].pc = "done" /\ req[r2].status \in {200, 401, 422, 500}
        /\ r1 < r2

\* C24: every row the webhook path has stored satisfies the data-model
\* constraints: message_id non-empty, from and to a "+" followed by one or
\* more digits and nothing else, ts of the form YYYY-MM-DDTHH:MM:SSZ and a
\* calendar instant, text null or at most 4096 characters.
C24_RowsSatisfyConstraints ==
    \A i \in 1..Len(rows) :
        /\ Len(rows[i].message_id) >= 1
        /\ E164Full(rows[i].from_msisdn)
        /\ E164Full(rows[i].to_msisdn)
        /\ IsoShape(rows[i].ts) /\ FromIsoFormatOk(rows[i].ts)
        /\ \/ rows[i].text.t = "null"
           \/ rows[i].text.t = "str" /\ StrLen(rows[i].text) <= MaxTextLen

C26_FixedBodies ==
    \A r \in Reqs :
        Answered(r) =>
            /\ req[r].status = 401 => req[r].resp = RespDetail("invalid signature")
            /\ req[r].status = 503 => req[r].resp = RespDetail("server not ready")
            /\ req[r].status = 500 =>
                  req[r].resp = RespDetail("internal server error")
            /\ (req[r].status = 422 /\ BodyOf[req[r].body].kind # "object") =>
                  req[r].resp = RespDetail("Invalid JSON")

\* A request that ended in 500 because of a fault of the store, after one
\* that ended in 500 or elsewhere.
C26_Witness ==
    \E r \in Reqs :
        /\ Answered(r) /\ req[r].status = 500
        /\ req[r].fault = "disk I/O error"
        /\ \E q \in Reqs : req[q].pc = "done"

\* The body of the request is not a JSON object meeting the constraints the
\* validator enforces.
InvalidBody(r) ==
    \/ BodyOf[req[r].body].kind # "object"
    \/ WebhookMessageErrors(BodyOf[req[r].body].f) # <<>>

\* C27: the gates are taken in the order secret, signature, parse, validate,
\* persist and the first that fails decides: no secret gives 503 whatever
\* else is wrong, a bad signature with an invalid body gives 401, and a
\* request stopped at a gate leaves the store as it was.
C27_FirstFailingGateDecides ==
    \A r \in Reqs :
        Answered(r) =>
            /\ SecretMissing(secret) => req[r].status = 503
            /\ (BadSignature(r) /\ InvalidBody(r)) => req[r].status = 401
            /\ req[r].status \in {401, 422, 503} => (~req[r].passed /\ ~req[r].grew)

\* The requests that passed every gate, and those of them whose insert
\* ended in an error.
GatePassing == {r \in Reqs : req[r].passed}
InsertFailed == {r \in GatePassing : req[r].result = "server_error"}
NoWebhookInFlight == \A r \in Reqs : req[r].pc \in {"idle", "done"}

\* C31 (as stated): from an empty store and a fresh collector, with no
\* webhook request in flight the created counter is the number of rows and
\* the duplicate counter is the number of requests that passed the gates
\* minus the number of rows.
C31_Original ==
    NoWebhookInFlight =>
        /\ metrics.webhook["created"] = Len(rows)
        /\ metrics.webhook["duplicate"] = Cardinality(GatePassing) - Len(rows)

\* C31: from an empty store and a fresh collector, with no webhook request
\* in flight the created counter is the number of rows, and the duplicate
\* counter is the number of requests that passed the gates and whose insert
\* returned, minus the number of rows; a request whose insert ended in an
\* error is counted as server_error.
C31_CountersMatchStore ==
    NoWebhookInFlight =>
        /\ metrics.webhook["created"] = Len(rows)
        /\ metrics.webhook["duplicate"] =
              Cardinality(GatePassing \ InsertFailed) - Len(rows)
        /\ metrics.webhook["server_error"] >= Cardinality(InsertFailed)

\* Two requests with one message_id have been served: one row, one created,
\* one duplicate.
C31_Witness ==
    /\ NoWebhookInFlight
    /\ Cardinality(GatePassing) = 2 /\ Len(rows) = 1
    /\ metrics.webhook["created"] = 1 /\ metrics.webhook["duplicate"] = 1

\* ---------------------------------------------- the read endpoints
MessagesAnswered == rd.op = "messages" /\ rd.pc = "done" /\ rd.status = 200
StatsAnswered == rd.op = "stats" /\ rd.pc = "done" /\ rd.status = 200
RowIndex(id) == CHOOSE i \in 1..Len(rows) : rows[i].message_id = id
Smaller(a, b) == IF a < b THEN a ELSE b
RECURSIVE SumCounts(_)
SumCounts(entries) ==
    IF entries = <<>> THEN 0 ELSE Head(entries).count + SumCounts(Tail(entries))

\* C11: whatever the store, the filters, the limit and the offset, the page
\* is in ascending order of ts and, within one ts, in ascending order of
\* message_id, in whatever order the messages were inserted.
C11_PageSorted ==
    MessagesAnswered =>
        \A k \in 1..(Len(rd.data) - 1) :
            \/ TextLess(rd.data[k].ts, rd.data[k + 1].ts)
            \/ /\ rd.data[k].ts = rd.data[k + 1].ts
               /\ TextLess(rd.data[k].message_id, rd.data[k + 1].message_id)

\* Two messages with one ts come back in message_id order although they
\* were inserted the other way round.
C11_Witness ==
    /\ MessagesAnswered /\ ~rd.changed
    /\ \E k \in 1..(Len(rd.data) - 1) :
          /\ rd.data[k].ts = rd.data[k + 1].ts
          /\ RowIndex(rd.data[k].message_id) > RowIndex(rd.data[k + 1].message_id)

\* C12: for a store that does not change and given filters, the total
\* returned is the number of stored messages matching the filters, for
\* every accepted limit and offset, offsets past the last match included.
C12_TotalIsMatchCount ==
    (MessagesAnswered /\ ~rd.changed) =>
        /\ rd.total = Cardinality(Matching(rows, rd.f))
        /\ rd.total >= Len(rd.data)

\* The offset is past the only match of a filtered query.
C12_Witness ==
    /\ MessagesAnswered /\ ~rd.changed
    /\ rd.f.from = VStr(P15)
    /\ rd.total = 1 /\ rd.total < Len(rows)
    /\ rd.offset = IntParam(1) /\ rd.data = <<>>

\* The filters as a strict reading has them: each supplied filter is a
\* condition, q being a substring of the text character for character.
StrictMatch(row, f) ==
    /\ f.from.t = "str" => row.from_msisdn = f.from.s
    /\ f.since.t = "str" => ~TextLess(row.ts, f.since.s)
    /\ f.q.t = "str" =>
          /\ row.text.t = "str"
          /\ \E i \in 1..(Len(row.text.s) + 1) :
                /\ i + Len(f.q.s) - 1 <= Len(row.text.s)
                /\ SubSeq(row.text.s, i, i + Len(f.q.s) - 1) = f.q.s

\* C13 (as stated): the messages selected are exactly the stored messages
\* whose from equals the from filter, whose ts is at least since and whose
\* text contains q as a substring, all at once.
C13_Original ==
    (MessagesAnswered /\ ~rd.changed) =>
        LET N == Cardinality({i \in 1..Len(rows) : StrictMatch(rows[i], rd.f)})
        IN  /\ rd.total = N
            /\ \A k \in 1..Len(rd.data) :
                  StrictMatch(rows[RowIndex(rd.data[k].message_id)], rd.f)

\* The filters as amended: an omitted or empty filter is no condition; q
\* occurs in a non-null text at some position, letters compared without
\* regard to (ASCII) case and "_" in q standing for any character.
LikeMatch(row, f) ==
    /\ (f.from.t = "str" /\ f.from.s # <<>>) => row.from_msisdn = f.from.s
    /\ (f.since.t = "str" /\ f.since.s # <<>>) => ~TextLess(row.ts, f.since.s)
    /\ (f.q.t = "str" /\ f.q.s # <<>>) =>
          /\ row.text.t = "str"
          /\ \E i \in 1..Len(row.text.s) :
                /\ i + Len(f.q.s) - 1 <= Len(row.text.s)
                /\ \A j \in 1..Len(f.q.s) :
                      \/ f.q.s[j] = "_"
                      \/ Fold(f.q.s[j]) = Fold(row.text.s[i + j - 1])

\* C13 (amended): the messages selected are exactly the stored messages
\* that satisfy every supplied non-empty filter at once, q being matched
\* as SQL LIKE '%q%' does; the page holds the matches from position offset
\* on, limit of them at most, and nothing else.
C13_FiltersAreAnded ==
    (MessagesAnswered /\ ~rd.changed) =>
        LET N == Cardinality({i \in 1..Len(rows) : LikeMatch(rows[i], rd.f)})
        IN  /\ rd.total = N
            /\ Len(rd.data) =
                  Smaller(rd.rlimit.n,
                          IF N > rd.roffset.n THEN N - rd.roffset.n ELSE 0)
            /\ \A k \in 1..Len(rd.data) :
                  /\ HasId(rows, rd.data[k].message_id)
                  /\ LikeMatch(rows[RowIndex(rd.data[k].message_id)], rd.f)
                  /\ rd.data[k] = MessageOut(rows[RowIndex(rd.data[k].message_id)])

\* All three filters at once select one of three stored messages.
C13_Witness ==
    /\ MessagesAnswered /\ ~rd.changed
    /\ rd.f = [from |-> VStr(P15), since |-> VStr(T2), q |-> VMissing]
    /\ Len(rows) = MaxRows /\ rd.total = 1 /\ Len(rd.data) = 1
    /\ \E i \in 1..Len(rows) : rows[i].from_msisdn = P15 /\ rows[i].ts = T1
    /\ \E i \in 1..Len(rows) : rows[i].from_msisdn = P16 /\ rows[i].ts = T2

\* C14: GET /messages with limit outside [1,100] or offset below 0 is
\* answered 422 without a query of the store; with valid values the
\* response echoes the limit and offset used (50 and 0 when omitted) and
\* holds at most limit messages.
C14_LimitOffsetChecked ==
    (rd.op = "messages" /\ rd.pc = "done") =>
        IF \/ (rd.limit.t = "int" /\ ~(ParamGe(rd.limit, 1) /\ ParamLe(rd.limit, 100)))
           \/ (rd.offset.t = "int" /\ ~ParamGe(rd.offset, 0))
        THEN rd.status = 422 /\ ~rd.queried
        ELSE /\ rd.status = 200
             /\ rd.rlimit = (IF rd.limit.t = "absent" THEN IntParam(50) ELSE rd.limit)
             /\ rd.roffset = (IF rd.offset.t = "absent" THEN IntParam(0) ELSE rd.offset)
             /\ Len(rd.data) <= rd.rlimit.n

\* C15 (as stated): for every store content the counts of
\* messages_per_sender add up to total_messages.
C15_Original ==
    (StatsAnswered /\ ~rd.changed) =>
        SumCounts(rd.messages_per_sender) = rd.total

\* C15 (amended): for a store with at most 10 distinct senders the counts
\* of messages_per_sender add up to total_messages; with more senders they
\* add up to total_messages less the messages of the senders left out.
C15_SumOfCounts ==
    (StatsAnswered /\ ~rd.changed) =>
        LET listed == {rd.messages_per_sender[k].from_ :
                          k \in 1..Len(rd.messages_per_sender)}
            left_out == {i \in 1..Len(rows) : rows[i].from_msisdn \notin listed}
        IN  /\ SumCounts(rd.messages_per_sender) = rd.total - Cardinality(left_out)
            /\ Cardinality(SenderSet(rows)) <= 10 =>
                  SumCounts(rd.messages_per_sender) = rd.total
            /\ Cardinality(SenderSet(rows)) > 10 =>
                  SumCounts(rd.messages_per_sender) < rd.total

\* Ten senders, one of them with two messages: eleven in all, all counted.
C15_Witness ==
    /\ StatsAnswered /\ ~rd.changed
    /\ Cardinality(SenderSet(rows)) = 10
    /\ rd.total = 11 /\ SumCounts(rd.messages_per_sender) = 11

\* C16: messages_per_sender has min(10, number of distinct senders)
\* entries for distinct senders, each count is the number of stored messages
\* of that sender, the counts do not increase along the list, and no sender
\* left out has more messages than a sender in the list.
C16_TopSenders ==
    (StatsAnswered /\ ~rd.changed) =>
        LET top == rd.messages_per_sender
            listed == {top[k].from_ : k \in 1..Len(top)}
        IN  /\ Len(top) = Smaller(10, Cardinality(SenderSet(rows)))
            /\ Cardinality(listed) = Len(top)
            /\ \A k \in 1..Len(top) :
                  /\ top[k].from_ \in SenderSet(rows)
                  /\ top[k].count = SenderRows(rows, top[k].from_)
            /\ \A k \in 1..(Len(top) - 1) : top[k].count >= top[k + 1].count
            /\ \A a \in SenderSet(rows) \ listed : \A k \in 1..Len(top) :
                  SenderRows(rows, a) <= top[k].count

\* More than ten senders, the one with two messages sorting last by name:
\* it heads the list and one sender is left out.
C16_Witness ==
    /\ StatsAnswered /\ ~rd.changed
    /\ Cardinality(SenderSet(rows)) > 10
    /\ Len(rd.messages_per_sender) = 10
    /\ rd.messages_per_sender[1].count = 2
    /\ \A a \in SenderSet(rows) :
          ~TextLess(rd.messages_per_sender[1].from_, a)
    /\ rd.tie = "asc"

\* C17: total_messages is the number of rows, senders_count the number of
\* distinct from values, first_message_ts and last_message_ts the least and
\* the greatest stored ts; both are null exactly when the store is empty.
C17_StatsTotals ==
    (StatsAnswered /\ ~rd.changed) =>
        /\ rd.total = Len(rows)
        /\ rd.senders_count = Cardinality({rows[i].from_msisdn : i \in 1..Len(rows)})
        /\ (rd.first_message_ts = VNull) = (rows = <<>>)
        /\ (rd.last_message_ts = VNull) = (rows = <<>>)
        /\ rows # <<>> =>
              /\ \E i \in 1..Len(rows) : rd.first_message_ts = VStr(rows[i].ts)
              /\ \E i \in 1..Len(rows) : rd.last_message_ts = VStr(rows[i].ts)
              /\ \A i \in 1..Len(rows) :
                    /\ ~TextLess(rows[i].ts, rd.first_message_ts.s)
                    /\ ~TextLess(rd.last_message_ts.s, rows[i].ts)

\* The later message was inserted first; first and last differ.
C17_Witness ==
    /\ StatsAnswered /\ ~rd.changed
    /\ Len(rows) = 2 /\ rows[1].ts = T2 /\ rows[2].ts = T1
    /\ rd.first_message_ts = VStr(T1) /\ rd.last_message_ts = VStr(T2)
    /\ rd.senders_count = 2

\* The pages a client gets by asking for offset, offset + limit, ... until
\* a page comes back short, one after the other.
RECURSIVE Pages(_, _, _, _)
Pages(rs, f, limit, offset) ==
    LET page == SelectStmt(rs, f, limit, offset)
    IN  IF Len(page) < limit THEN page
        ELSE page \o Pages(rs, f, limit, offset + limit)

\* C28: for a store that does not change, given filters and a given limit,
\* the pages at offsets 0, limit, 2*limit, ... taken together hold every
\* matching message exactly once, in ascending (ts, message_id) order, also
\* when messages share a ts; the page answered is its slice of that list.
C28_PagesPartition ==
    (MessagesAnswered /\ ~rd.changed) =>
        LET all == Pages(rows, rd.f, rd.rlimit.n, 0)
            M == Matching(rows, rd.f)
        IN  /\ Len(all) = Cardinality(M)
            /\ \A i \in M :
                  Cardinality({k \in 1..Len(all) :
                                  all[k] = MessageOut(rows[i])}) = 1
            /\ \A k \in 1..(Len(all) - 1) :
                  \/ TextLess(all[k].ts, all[k + 1].ts)
                  \/ /\ all[k].ts = all[k + 1].ts
                     /\ TextLess(all[k].message_id, all[k + 1].message_id)
            /\ rd.data = SubSeq(all, rd.roffset.n + 1,
                                Smaller(rd.roffset.n + rd.rlimit.n, Len(all)))

\* The second page of a store whose messages all share one ts: it starts
\* where the first page ended.
C28_Witness ==
    /\ MessagesAnswered /\ ~rd.changed
    /\ rd.rlimit.n = 1 /\ rd.roffset.n = 1
    /\ Len(rd.data) = 1 /\ rd.total > 2
    /\ \A i \in Matching(rows, rd.f) : rows[i].ts = rd.data[1].ts
    /\ rd.data[1] = Pages(rows, rd.f, 1, 0)[2]

Larger(a, b) == IF a > b THEN a ELSE b

\* C32: also with inserts running during the call, the page of a message
\* query has min(limit, max(0, total - offset)) messages for the total of
\* the same response: count and page come from one state of the store.
C32_PageFitsTotal ==
    MessagesAnswered =>
        Len(rd.data) =
            Smaller(rd.rlimit.n, Larger(0, rd.total - rd.roffset.n))

\* C33: also with inserts running during the call, the parts of a stats
\* response describe one state of the store: senders_count and every
\* listed count are at most total_messages, messages_per_sender has
\* min(10, senders_count) entries, and the two timestamps are null exactly
\* when total_messages is 0.
C33_StatsOneSnapshot ==
    StatsAnswered =>
        /\ rd.senders_count <= rd.total
        /\ \A k \in 1..Len(rd.messages_per_sender) :
              rd.messages_per_sender[k].count <= rd.total
        /\ Len(rd.messages_per_sender) = Smaller(TopN, rd.senders_count)
        /\ (rd.first_message_ts = VNull) = (rd.total = 0)
        /\ (rd.last_message_ts = VNull) = (rd.total = 0)

\* ------------------------------------------------- the collector
\* The number of completed observations (counted in dn) that are <= b.
Seen(dn, b) ==
    Cardinality(UNION {{<<l, k>> : k \in 1..dn[Observe(l)]} :
                          l \in {x \in Latencies : x <= b}})
SeenAll(dn) ==
    Cardinality(UNION {{<<l, k>> : k \in 1..dn[Observe(l)]} : l \in Latencies})
RECURSIVE SumSeen(_, _)
SumSeen(dn, ls) ==
    IF ls = {} THEN 0
    ELSE LET l == CHOOSE x \in ls : TRUE
         IN  l * dn[Observe(l)] + SumSeen(dn, ls \ {l})
NoObservationInProgress ==
    \A t \in Threads :
        mc.th[t].pc = "idle" \/ mc.th[t].call.op # "observe_latency"

\* C18: after any sequence of latency observations each finite bucket
\* holds the number of observations <= its boundary, no bucket holds more
\* than the next larger one, and the +Inf bucket holds the number of
\* observations.
C18_HistogramState ==
    NoObservationInProgress =>
        /\ \A i \in 1..Len(LATENCY_BUCKETS) :
              metrics.buckets[i] = Seen(mc.done, LATENCY_BUCKETS[i])
        /\ \A i \in 1..(Len(LATENCY_BUCKETS) - 1) :
              metrics.buckets[i] <= metrics.buckets[i + 1]
        /\ metrics.buckets[Len(LATENCY_BUCKETS)] <= metrics.inf
        /\ metrics.inf = SeenAll(mc.done)
        /\ metrics.inf = metrics.count

\* Three observations: on the lowest boundary, between boundaries and
\* above the highest one.
C18_Witness ==
    /\ NoObservationInProgress
    /\ \A l \in Latencies : mc.done[Observe(l)] = 1
    /\ metrics.buckets[1] = 1 /\ metrics.buckets[2] = 1 /\ metrics.buckets[3] = 2
    /\ metrics.buckets[Len(LATENCY_BUCKETS)] = 2 /\ metrics.inf = 3

\* C19: in the rendered text the number on each request_latency_ms_bucket
\* line is the number of recorded observations <= its boundary, so every
\* finite bucket line is <= the +Inf line, and the +Inf line equals the
\* request_latency_ms_count line.
C19_RenderedBuckets ==
    mc.rendered.le # <<>> =>
        /\ \A i \in 1..Len(LATENCY_BUCKETS) :
              /\ mc.rendered.le[i] = Seen(mc.rendered_at, LATENCY_BUCKETS[i])
              /\ mc.rendered.le[i] <= mc.rendered.inf
        /\ mc.rendered.inf = mc.rendered.count

\* C20: the methods of the collector exclude one another: at most one
\* thread is inside one; between calls every counter holds the number of
\* completed increments and the histogram the completed observations (no
\* increment is lost); and a rendered text shows the collector as it was
\* between two calls, never a half-applied observation.
C20_MutualExclusion ==
    /\ Cardinality({t \in Threads : mc.th[t].pc # "idle"}) <= 1
    /\ \A t \in Threads : mc.th[t].pc # "idle" => mc.lock = t
    /\ mc.lock = 0 =>
          /\ metrics.http[HttpKey] = mc.done[IncHttp]
          /\ metrics.webhook[WebhookKey] = mc.done[IncWebhook]
          /\ metrics.count = SeenAll(mc.done)
          /\ metrics.inf = SeenAll(mc.done)
          /\ metrics.sum = SumSeen(mc.done, Latencies)
          /\ \A i \in 1..Len(LATENCY_BUCKETS) :
                metrics.buckets[i] = Seen(mc.done, LATENCY_BUCKETS[i])
    /\ mc.rendered.le # <<>> =>
          /\ mc.rendered.http[HttpKey] = mc.rendered_at[IncHttp]
          /\ mc.rendered.webhook[WebhookKey] = mc.rendered_at[IncWebhook]
          /\ mc.rendered.count = SeenAll(mc.rendered_at)
          /\ mc.rendered.inf = mc.rendered.count
          /\ mc.rendered.sum = SumSeen(mc.rendered_at, Latencies)
          /\ mc.rendered.le[1] = Seen(mc.rendered_at, LATENCY_BUCKETS[1])

\* A thread is half way through an observation (count incremented, +Inf
\* not yet) after a render and with a further call still to come.
C20_Witness ==
    /\ \E t \in Threads :
          /\ mc.th[t].pc = "inf_ld" /\ mc.lock = t
          /\ metrics.count = metrics.inf + 1
    /\ mc.done[Render] = 1
    /\ mc.begun < MaxOps

====
